---- MODULE Spec2Model ----
(***************************************************************************)
(* ESP32 RS485 sensor system: the two PC-side monitor programs,           *)
(*   iniciar_sistema.py      (class ESP32Interface, LOCAL / DISTRIBUIDO)   *)
(*   Interfaz/esp32_monitor.py (class ESP32Monitor)                        *)
(* and the SerialWorker reader thread both of them use.                    *)
(*                                                                         *)
(* Python dicts are functions whose DOMAIN is the set of keys present.     *)
(* Indices are 0-based as in the source; sequences are 1-based, so         *)
(* sensors[current_sensor] is written sensors[current_sensor + 1].         *)
(***************************************************************************)
EXTENDS Integers, Sequences, FiniteSets, TLC

\* ------------------------------------------------------------------ bounds
\* capacity of the three plot deques of ESP32Interface (300 in the source)
PlotMaxLen == 2
\* max_points of ESP32Monitor.update_real_time_plot (300 in the source)
max_points == 2
\* maxlen of the plot deques of ESP32Monitor (500 in the source)
MonitorPlotMaxLen == 4
\* maxlen of esp1_data / esp2_data / time_data of ESP32Monitor (1000 in the source)
HistoryMaxLen == 1
\* number of SerialWorker objects the operator may create
MaxWorkers == 2
\* largest value the clock time.time() takes in the model
MaxTime == 1
\* largest number of lines a port delivers to one reader
MaxLines == 2

\* ------------------------------------------------------------- vocabulary
None == "None"
ESPs == {"ESP1", "ESP2"}
Modes == {"LOCAL", "DISTRIBUIDO"}
Programs == {"iniciar_sistema", "esp32_monitor"}
Ports == {"COM1", "COM2"}
Workers == 1 .. MaxWorkers
\* the value of self.esp1_worker / self.esp2_worker when it is None
NoWorker == 0

\* self.sensors (iniciar_sistema) / self.sensor_keys (esp32_monitor), first entries
sensors == <<"pot", "ldr">>
SensorIdx == 0 .. (Len(sensors) - 1)

\* sensor objects a node sends; the remote object lacks the key "ldr"
LocalObj == [pot |-> 1, ldr |-> 2]
RemoteObj == [pot |-> 3]

\* a dict with the keys ks of the full record r
Restrict(r, ks) == [k \in ks |-> r[k]]

\* telemetry dicts: device is ESP1, ESP2, an unrecognized name or absent;
\* local and remote are each an object or absent
FullFrame(d) == [device |-> d, local |-> LocalObj, remote |-> RemoteObj]
Frames ==
  { Restrict(FullFrame(d), ks) :
      d \in ESPs \cup {"ESP3"},
      ks \in SUBSET {"device", "local", "remote"} }

\* the empty dict {}
EmptyDict == [k \in {} |-> 0]

\* dict.get(key, default)
Get(d, key, default) == IF key \in DOMAIN d THEN d[key] ELSE default

\* a deque without maxlen
DequeAppend_unbounded(q, x, cap) == Append(q, x)

\* a deque that drops its newest entry instead of its oldest when full
DequeAppend_drops_newest(dq, x, n) ==
  IF Len(dq) < n THEN Append(dq, x) ELSE Append(SubSeq(dq, 1, n - 1), x)

\* collections.deque(maxlen=n).append(x)
DequeAppend(dq, x, n) ==
  IF Len(dq) < n THEN Append(dq, x) ELSE Append(Tail(dq), x)

\* list(xs)[-n:]
LastN(xs, n) ==
  IF Len(xs) <= n THEN xs ELSE SubSeq(xs, Len(xs) - n + 1, Len(xs))

\* ------------------------------------------------------------------ state
VARIABLES
  program,            \* which of the two programs is running
  master_esp,         \* self.master_esp
  operation_mode,     \* self.operation_mode (iniciar_sistema only)
  local_esp,          \* self.local_esp (iniciar_sistema only)
  current_sensor,     \* self.current_sensor
  plot_data_local,    \* ESP32Interface.plot_data_local
  plot_data_remote,   \* ESP32Interface.plot_data_remote
  plot_time,          \* ESP32Interface.plot_time
  master_local_data,  \* ESP32Monitor.master_local_data
  master_remote_data, \* ESP32Monitor.master_remote_data
  plot_time_data,     \* ESP32Monitor.plot_time_data
  esp1_data,          \* ESP32Monitor.esp1_data
  esp2_data,          \* ESP32Monitor.esp2_data
  time_data,          \* ESP32Monitor.time_data
  now,                \* last value returned by time.time()
  curves,             \* arguments of the setData calls made by the last handler
  appended,           \* log: the samples appended since the last clear
  ev                  \* log: the last handler that ran, with its arguments

VARIABLES
  esp1_worker,        \* self.esp1_worker: a SerialWorker or NoWorker
  esp2_worker,        \* self.esp2_worker
  wstate,             \* per SerialWorker: where its thread is in run()
  running,            \* per SerialWorker: self.running
  serial_connection,  \* per SerialWorker: self.serial_connection
  wport,              \* per SerialWorker: self.port
  esp_name,           \* per SerialWorker: self.esp_name
  stream,             \* per SerialWorker: the bytes its port delivers
  rpos,               \* per SerialWorker: how many of them read() has returned
  buffer,             \* per SerialWorker: the local variable buffer of run()
  emitted,            \* log: per SerialWorker, the dicts data_received carried
  queue,              \* signals queued for the main thread's event loop
  main_pc,            \* where the main (GUI) thread is
  waiting_on,         \* the SerialWorker the main thread is blocked on in wait()
  joined,             \* log: the workers whose disconnect branch has finished
  esp_status,         \* text of the labels esp1_status / esp2_status
  esp_btn             \* text of the connect buttons

dataVars ==
  << program, master_esp, operation_mode, local_esp, current_sensor,
     plot_data_local, plot_data_remote, plot_time,
     master_local_data, master_remote_data, plot_time_data,
     esp1_data, esp2_data, time_data, now, curves, appended, ev >>

\* what a handler of the link leaves alone in the main window
plotVars ==
  << program, master_esp, operation_mode, local_esp, current_sensor,
     plot_data_local, plot_data_remote, plot_time,
     master_local_data, master_remote_data, plot_time_data,
     esp1_data, esp2_data, time_data, now, appended >>

workerVars ==
  << wstate, running, serial_connection, wport, esp_name, stream, rpos,
     buffer, emitted >>

mainVars ==
  << esp1_worker, esp2_worker, main_pc, waiting_on, joined, esp_status,
     esp_btn >>

linkVars ==
  << esp1_worker, esp2_worker, wstate, running, serial_connection, wport,
     esp_name, stream, rpos, buffer, emitted, queue, main_pc, waiting_on,
     joined, esp_status, esp_btn >>

vars ==
  << program, master_esp, operation_mode, local_esp, current_sensor,
     plot_data_local, plot_data_remote, plot_time,
     master_local_data, master_remote_data, plot_time_data,
     esp1_data, esp2_data, time_data, now, curves, appended, ev,
     esp1_worker, esp2_worker, wstate, running, serial_connection, wport,
     esp_name, stream, rpos, buffer, emitted, queue, main_pc, waiting_on,
     joined, esp_status, esp_btn >>

NoCurves == [drawn |-> FALSE, x |-> <<>>, local |-> <<>>, remote |-> <<>>]

NoWrites == <<>>

\* the record of a handler call: its name, the dict it was given, the node or
\* mode name it was given, the sensor index it was given, the worker that
\* sent the signal it handles (0 for none), the bytes it wrote to each link
\* and the number of samples it removed from the window
Event(op, data, esp, idx, sender, writes, dropped) ==
  [op |-> op, data |-> data, esp |-> esp, idx |-> idx, sender |-> sender,
   writes |-> writes, dropped |-> dropped]

\* ------------------------------------------------- SerialWorker.write_data
\* self.esp1_worker / self.esp2_worker by node name
WorkerOf(esp) == IF esp = "ESP1" THEN esp1_worker ELSE esp2_worker

\* a write_data that does not look at the running flag
write_data_ignores_running(w, data) ==
  IF serial_connection[w] = "open"
  THEN << [worker |-> w, data |-> data] >>
  ELSE NoWrites

\* write_data: the bytes reach the port when serial_connection is set, running
\* is true and write() does not raise (it raises on a closed port)
write_data(w, data) ==
  IF serial_connection[w] # None /\ running[w] /\ serial_connection[w] = "open"
  THEN << [worker |-> w, data |-> data] >>
  ELSE NoWrites

\* the guard `self.espN_worker and self.espN_worker.running` around a write
WriteIfRunning(w, data) ==
  IF w # NoWorker /\ running[w] THEN write_data(w, data) ELSE NoWrites

\* a send_master_command that tells every connected node
send_master_command_broadcast(esp) ==
  WriteIfRunning(esp1_worker, << "SET_MASTER", "\n" >>)
    \o WriteIfRunning(esp2_worker, << "SET_MASTER", "\n" >>)

\* ESP32Monitor.send_slave_command(esp_name): "SET_SLAVE\n" to that node's
\* worker; no handler of either program calls it
send_slave_command(esp) ==
  WriteIfRunning(WorkerOf(esp), << "SET_SLAVE", "\n" >>)

\* send_master_command(esp_name): "SET_MASTER\n" to that node's worker
send_master_command(esp) ==
  WriteIfRunning(WorkerOf(esp), << "SET_MASTER", "\n" >>)

\* the guard of write_data holds, so serial_connection.write(data) is called
write_attempted(w) == serial_connection[w] # None /\ running[w]

\* the value write_data returns: True after write() returned, False when the
\* guard fails or write() raised
write_data_returns(w) ==
  IF serial_connection[w] # None /\ running[w]
  THEN serial_connection[w] = "open"
  ELSE FALSE

\* a direct call worker.write_data(data) on an existing SerialWorker: the
\* call reads the worker's fields and assigns none
write_data_call(w, data) ==
  /\ wstate[w] # "unborn"
  /\ ev' = [op |-> "write_data", data |-> EmptyDict, esp |-> "", idx |-> -1,
            sender |-> w, writes |-> write_data(w, data), dropped |-> 0,
            returned |-> write_data_returns(w)]
  /\ curves' = NoCurves
  /\ UNCHANGED << program, master_esp, operation_mode, local_esp,
                  current_sensor, plot_data_local, plot_data_remote,
                  plot_time, master_local_data, master_remote_data,
                  plot_time_data, esp1_data, esp2_data, time_data, now,
                  appended >>

\* ------------------------------------------------------------ LED commands
\* the LED names of the check boxes
LedNames == {"led_verde", "led_rojo", "led_amarillo"}

\* target.lower()
Lower == [ESP1 |-> "esp1", ESP2 |-> "esp2"]

\* str(state).lower()
BoolStr(state) == IF state THEN "true" ELSE "false"

\* a command built from the target name as given, without lower()
PrefixedCommand_keeps_case(target, led_name, state) ==
  << target, "_", led_name, ":", BoolStr(state), "\n" >>

\* f"{target.lower()}_{led_name}:{str(state).lower()}\n"
PrefixedCommand(target, led_name, state) ==
  << Lower[target], "_", led_name, ":", BoolStr(state), "\n" >>

\* f"{led_name}:{str(state).lower()}\n"
PlainCommand(led_name, state) == << led_name, ":", BoolStr(state), "\n" >>

\* the record of a handler that only writes to the links
CommandEvent(op, data, esp, writes) ==
  /\ ev' = Event(op, data, esp, -1, 0, writes, 0)
  /\ curves' = NoCurves
  /\ UNCHANGED << program, master_esp, operation_mode, local_esp,
                  current_sensor, plot_data_local, plot_data_remote,
                  plot_time, master_local_data, master_remote_data,
                  plot_time_data, esp1_data, esp2_data, time_data, now,
                  appended >>

\* a send_led_command that always writes to the target's own link
send_led_command_direct(target, led_name, state) ==
  /\ program = "iniciar_sistema"
  /\ CommandEvent("send_led_command",
                  [led_name |-> led_name, state |-> state], target,
                  WriteIfRunning(WorkerOf(target),
                                 PrefixedCommand(target, led_name, state)))

\* ESP32Interface.send_led_command(target, led_name, state): in DISTRIBUIDO
\* mode the command goes to the local node's link, in LOCAL mode to the
\* target's link; the text of the command is the same in both modes
send_led_command(target, led_name, state) ==
  LET command == PrefixedCommand(target, led_name, state)
      w == IF operation_mode = "DISTRIBUIDO"
           THEN IF target = local_esp
                THEN WorkerOf(target)
                ELSE IF local_esp \in ESPs
                     THEN WorkerOf(local_esp)
                     ELSE NoWorker
           ELSE WorkerOf(target)
  IN /\ program = "iniciar_sistema"
     /\ CommandEvent("send_led_command",
                     [led_name |-> led_name, state |-> state], target,
                     WriteIfRunning(w, command))

\* ESP32Monitor.send_led_command(target, led_name, state)
Mon_send_led_command(target, led_name, state) ==
  /\ program = "esp32_monitor"
  /\ CommandEvent("send_led_command",
                  [led_name |-> led_name, state |-> state], target,
                  WriteIfRunning(WorkerOf(target),
                                 PlainCommand(led_name, state)))

\* the three literal commands of test_remote_leds for node n ("esp1"/"esp2"),
\* each written with write_data to worker w
RemoteLedTest(w, n) ==
  write_data(w, << n, "_", "led_verde", ":", "true", "\n" >>)
    \o write_data(w, << n, "_", "led_rojo", ":", "true", "\n" >>)
    \o write_data(w, << n, "_", "led_amarillo", ":", "true", "\n" >>)

Running(w) == w # NoWorker /\ running[w]

\* ESP32Interface.test_remote_leds()
test_remote_leds ==
  /\ program = "iniciar_sistema"
  /\ CommandEvent("test_remote_leds", EmptyDict, "",
       IF operation_mode = "DISTRIBUIDO"
       THEN IF local_esp = "ESP1" /\ Running(esp1_worker)
            THEN RemoteLedTest(esp1_worker, "esp2")
            ELSE IF local_esp = "ESP2" /\ Running(esp2_worker)
                 THEN RemoteLedTest(esp2_worker, "esp1")
                 ELSE NoWrites
       ELSE (IF Running(esp1_worker)
             THEN RemoteLedTest(esp1_worker, "esp2")
             ELSE NoWrites)
            \o (IF Running(esp2_worker)
                THEN RemoteLedTest(esp2_worker, "esp1")
                ELSE NoWrites))

\* ---------------------------------------------- ESP32Interface: plot data
\* a clear that forgets plot_data_remote
ClearPlot_keeps_remote ==
  /\ plot_data_local' = << >>
  /\ plot_data_remote' = plot_data_remote
  /\ plot_time' = << >>
  /\ appended' = << >>

\* deque.clear() of the three plot deques
ClearPlot ==
  /\ plot_data_local' = << >>
  /\ plot_data_remote' = << >>
  /\ plot_time' = << >>
  /\ appended' = << >>

Sample(t, local_val, remote_val, key) ==
  [t |-> t, local |-> local_val, remote |-> remote_val, key |-> key]

\* a master update that reads the two fields the wrong way round
update_plot_data_swapped(data, t) ==
  LET sensor_key == sensors[current_sensor + 1]
      local_val == Get(Get(data, "remote", EmptyDict), sensor_key, 0)
      remote_val == Get(Get(data, "local", EmptyDict), sensor_key, 0)
  IN /\ plot_data_local' = DequeAppend(plot_data_local, local_val, PlotMaxLen)
     /\ plot_data_remote' = DequeAppend(plot_data_remote, remote_val, PlotMaxLen)
     /\ plot_time' = DequeAppend(plot_time, t, PlotMaxLen)
     /\ appended' =
          LastN(Append(appended, Sample(t, local_val, remote_val, sensor_key)),
                PlotMaxLen)

\* update_plot_data: the frame's own local / remote values, current_time = t
update_plot_data(data, t) ==
  LET sensor_key == sensors[current_sensor + 1]
      local_val == Get(Get(data, "local", EmptyDict), sensor_key, 0)
      remote_val == Get(Get(data, "remote", EmptyDict), sensor_key, 0)
  IN /\ plot_data_local' = DequeAppend(plot_data_local, local_val, PlotMaxLen)
     /\ plot_data_remote' = DequeAppend(plot_data_remote, remote_val, PlotMaxLen)
     /\ plot_time' = DequeAppend(plot_time, t, PlotMaxLen)
     /\ appended' =
          LastN(Append(appended, Sample(t, local_val, remote_val, sensor_key)),
                PlotMaxLen)

\* a relay update that does not swap the two fields
update_plot_data_from_slave_unswapped(data, t) == update_plot_data(data, t)

\* update_plot_data_from_slave: both branches on master_esp read the master's
\* value from 'remote' and the slave's from 'local'
update_plot_data_from_slave(data, t) ==
  LET sensor_key == sensors[current_sensor + 1]
      master_local_val ==
        IF master_esp = "ESP1"
        THEN Get(Get(data, "remote", EmptyDict), sensor_key, 0)
        ELSE Get(Get(data, "remote", EmptyDict), sensor_key, 0)
      master_remote_val ==
        IF master_esp = "ESP1"
        THEN Get(Get(data, "local", EmptyDict), sensor_key, 0)
        ELSE Get(Get(data, "local", EmptyDict), sensor_key, 0)
  IN /\ plot_data_local' =
          DequeAppend(plot_data_local, master_local_val, PlotMaxLen)
     /\ plot_data_remote' =
          DequeAppend(plot_data_remote, master_remote_val, PlotMaxLen)
     /\ plot_time' = DequeAppend(plot_time, t, PlotMaxLen)
     /\ appended' =
          LastN(Append(appended,
                       Sample(t, master_local_val, master_remote_val, sensor_key)),
                PlotMaxLen)

\* an auto-detection that binds again on every recognized frame
auto_detect_rebinds(device) ==
  IF operation_mode = "DISTRIBUIDO" /\ device \in ESPs
  THEN device
  ELSE local_esp

\* the auto-detection of the local node at the head of on_data_received
auto_detect(device) ==
  IF operation_mode = "DISTRIBUIDO" /\ local_esp = None /\ device \in ESPs
  THEN device
  ELSE local_esp

\* a dispatch that, in distributed mode, rejects a dict without both objects
PlotCall_requires_both(data) ==
  LET device == Get(data, "device", "Unknown")
  IN IF operation_mode = "DISTRIBUIDO"
     THEN IF "local" \in DOMAIN data /\ "remote" \in DOMAIN data
          THEN IF device = master_esp
               THEN "update_plot_data"
               ELSE "update_plot_data_from_slave"
          ELSE "none"
     ELSE IF device = master_esp THEN "update_plot_data" ELSE "none"

\* a dispatch that applies the distributed rules in every mode
PlotCall_relays_in_local(data) ==
  LET device == Get(data, "device", "Unknown")
  IN IF "local" \in DOMAIN data /\ "remote" \in DOMAIN data
     THEN IF device = master_esp
          THEN "update_plot_data"
          ELSE "update_plot_data_from_slave"
     ELSE IF device = master_esp THEN "update_plot_data" ELSE "none"

\* a dispatch that, in distributed mode, relays every dict of another node
PlotCall_zero_fills(data) ==
  LET device == Get(data, "device", "Unknown")
  IN IF operation_mode = "DISTRIBUIDO"
     THEN IF device = master_esp
          THEN "update_plot_data"
          ELSE "update_plot_data_from_slave"
     ELSE IF device = master_esp THEN "update_plot_data" ELSE "none"

\* which plot update on_data_received calls for a dict
PlotCall(data) ==
  LET device == Get(data, "device", "Unknown")
  IN IF operation_mode = "DISTRIBUIDO"
     THEN IF "local" \in DOMAIN data /\ "remote" \in DOMAIN data
          THEN IF device = master_esp
               THEN "update_plot_data"
               ELSE "update_plot_data_from_slave"
          ELSE IF device = master_esp THEN "update_plot_data" ELSE "none"
     ELSE IF device = master_esp THEN "update_plot_data" ELSE "none"

\* ESP32Interface.on_data_received(port, data), the signal sent by worker
\* `sender`; port is only read by the message printed on an exception
on_data_received(data, sender) ==
  LET device == Get(data, "device", "Unknown")
      call == PlotCall(data)
  IN /\ program = "iniciar_sistema"
     /\ local_esp' = auto_detect(device)
     /\ IF call = "none"
        THEN UNCHANGED << plot_data_local, plot_data_remote, plot_time,
                          appended, now >>
        ELSE \E t \in now .. MaxTime :
               /\ now' = t
               /\ IF call = "update_plot_data"
                  THEN update_plot_data(data, t)
                  ELSE update_plot_data_from_slave(data, t)
     /\ curves' = NoCurves
     /\ ev' = Event("on_data_received", data, "", -1, sender, NoWrites,
                    IF call = "none" THEN 0
                    ELSE Len(plot_time) + 1 - Len(plot_time'))
     /\ UNCHANGED << program, master_esp, operation_mode, current_sensor,
                     master_local_data, master_remote_data, plot_time_data,
                     esp1_data, esp2_data, time_data >>

\* a set_master that gives up when the command cannot be written
set_master_needs_link(esp) ==
  /\ program = "iniciar_sistema"
  /\ curves' = NoCurves
  /\ ev' = Event("set_master", EmptyDict, esp, -1, 0,
                 send_master_command(esp), 0)
  /\ IF send_master_command(esp) = NoWrites
     THEN UNCHANGED << master_esp, plot_data_local, plot_data_remote,
                       plot_time, appended >>
     ELSE master_esp' = esp /\ ClearPlot
  /\ UNCHANGED << program, operation_mode, local_esp, current_sensor,
                  master_local_data, master_remote_data, plot_time_data,
                  esp1_data, esp2_data, time_data, now >>

\* ESP32Interface.set_master(esp_name)
set_master(esp) ==
  /\ program = "iniciar_sistema"
  /\ master_esp' = esp
  /\ ClearPlot
  /\ curves' = NoCurves
  /\ ev' = Event("set_master", EmptyDict, esp, -1, 0,
                 send_master_command(esp), Len(plot_time))
  /\ UNCHANGED << program, operation_mode, local_esp, current_sensor,
                  master_local_data, master_remote_data, plot_time_data,
                  esp1_data, esp2_data, time_data, now >>

\* ESP32Interface.set_sensor(sensor_idx)
set_sensor(sensor_idx) ==
  /\ program = "iniciar_sistema"
  /\ current_sensor' = sensor_idx
  /\ ClearPlot
  /\ curves' = NoCurves
  /\ ev' = Event("set_sensor", EmptyDict, "", sensor_idx, 0, NoWrites,
                 Len(plot_time))
  /\ UNCHANGED << program, master_esp, operation_mode, local_esp,
                  master_local_data, master_remote_data, plot_time_data,
                  esp1_data, esp2_data, time_data, now >>

\* ESP32Interface.set_operation_mode(mode)
set_operation_mode(mode) ==
  /\ program = "iniciar_sistema"
  /\ operation_mode' = mode
  /\ curves' = NoCurves
  /\ ev' = Event("set_operation_mode", EmptyDict, mode, -1, 0, NoWrites, 0)
  /\ UNCHANGED << program, master_esp, local_esp, current_sensor,
                  plot_data_local, plot_data_remote, plot_time,
                  master_local_data, master_remote_data, plot_time_data,
                  esp1_data, esp2_data, time_data, now, appended >>

\* absolute times instead of times relative to the first sample
time_abs(ts) == ts

\* [t - ts[0] for t in ts]
time_rel(ts) == [i \in 1 .. Len(ts) |-> ts[i] - ts[1]]

\* the setData calls: both curves get the same x and their own y
Drawn(ts, local, remote) ==
  [drawn |-> TRUE, x |-> time_rel(ts), local |-> local, remote |-> remote]

\* ESP32Interface.update_display(), run by the 50 ms timer
update_display ==
  /\ program = "iniciar_sistema"
  /\ curves' = IF Len(plot_time) > 1
               THEN Drawn(plot_time, plot_data_local, plot_data_remote)
               ELSE NoCurves
  /\ ev' = Event("update_display", EmptyDict, "", -1, 0, NoWrites, 0)
  /\ UNCHANGED << program, master_esp, operation_mode, local_esp,
                  current_sensor, plot_data_local, plot_data_remote, plot_time,
                  master_local_data, master_remote_data, plot_time_data,
                  esp1_data, esp2_data, time_data, now, appended >>

\* ------------------------------------------------ ESP32Monitor: plot data
\* data['timestamp'] = current_time when the dict has no timestamp
with_timestamp(data, t) ==
  IF "timestamp" \in DOMAIN data
  THEN data
  ELSE [k \in DOMAIN data \cup {"timestamp"} |->
          IF k = "timestamp" THEN t ELSE data[k]]

\* the trim of one plot series: deque(list(xs)[-max_points:], maxlen=500)
\* when the window holds more than max_points entries
Trim(xs, over) == IF over THEN LastN(xs, max_points) ELSE xs

\* ESP32Monitor.update_real_time_plot(data), current_time = t
update_real_time_plot(data, t) ==
  LET sensor_key == sensors[current_sensor + 1]
      local_value == Get(Get(data, "local", EmptyDict), sensor_key, 0)
      remote_value == Get(Get(data, "remote", EmptyDict), sensor_key, 0)
      l1 == DequeAppend(master_local_data, local_value, MonitorPlotMaxLen)
      r1 == DequeAppend(master_remote_data, remote_value, MonitorPlotMaxLen)
      t1 == DequeAppend(plot_time_data, t, MonitorPlotMaxLen)
      over == Len(t1) > max_points
  IN /\ master_local_data' = Trim(l1, over)
     /\ master_remote_data' = Trim(r1, over)
     /\ plot_time_data' = Trim(t1, over)
     /\ appended' =
          LastN(Append(appended, Sample(t, local_value, remote_value, sensor_key)),
                max_points)
     /\ curves' = IF Len(Trim(t1, over)) > 0
                  THEN Drawn(Trim(t1, over), Trim(l1, over), Trim(r1, over))
                  ELSE NoCurves

\* deque.clear() of the three plot deques of ESP32Monitor
Mon_ClearPlot ==
  /\ master_local_data' = << >>
  /\ master_remote_data' = << >>
  /\ plot_time_data' = << >>
  /\ appended' = << >>

\* a handler that files the dict of any other device under ESP2
Mon_on_data_received_keeps_unknown(data, sender) ==
  LET device == Get(data, "device", "Unknown")
  IN /\ program = "esp32_monitor"
     /\ \E t0 \in now .. MaxTime :
          LET stored == with_timestamp(data, t0)
          IN /\ esp1_data' = IF device = "ESP1"
                             THEN DequeAppend(esp1_data, stored, HistoryMaxLen)
                             ELSE esp1_data
             /\ esp2_data' = IF device # "ESP1"
                             THEN DequeAppend(esp2_data, stored, HistoryMaxLen)
                             ELSE esp2_data
             /\ IF device = master_esp
                THEN \E t \in t0 .. MaxTime :
                       /\ now' = t
                       /\ update_real_time_plot(stored, t)
                ELSE /\ now' = t0
                     /\ curves' = NoCurves
                     /\ UNCHANGED << master_local_data, master_remote_data,
                                     plot_time_data, appended >>
             /\ time_data' =
                  IF Len(time_data) = 0 \/ t0 - time_data[Len(time_data)] > 0
                  THEN DequeAppend(time_data, t0, HistoryMaxLen)
                  ELSE time_data
     /\ ev' = Event("on_data_received", data, "", -1, sender, NoWrites,
                    IF device = master_esp
                    THEN Len(plot_time_data) + 1 - Len(plot_time_data')
                    ELSE 0)
     /\ UNCHANGED << program, master_esp, operation_mode, local_esp,
                     current_sensor, plot_data_local, plot_data_remote,
                     plot_time >>

\* ESP32Monitor.on_data_received(port, data); current_time = t0 and the clock
\* is read again inside update_real_time_plot. One clock tick is longer than
\* the 0.01 s threshold of time_data.
Mon_on_data_received(data, sender) ==
  LET device == Get(data, "device", "Unknown")
  IN /\ program = "esp32_monitor"
     /\ \E t0 \in now .. MaxTime :
          LET stored == with_timestamp(data, t0)
          IN /\ esp1_data' = IF device = "ESP1"
                             THEN DequeAppend(esp1_data, stored, HistoryMaxLen)
                             ELSE esp1_data
             /\ esp2_data' = IF device = "ESP2"
                             THEN DequeAppend(esp2_data, stored, HistoryMaxLen)
                             ELSE esp2_data
             /\ IF device = master_esp
                THEN \E t \in t0 .. MaxTime :
                       /\ now' = t
                       /\ update_real_time_plot(stored, t)
                ELSE /\ now' = t0
                     /\ curves' = NoCurves
                     /\ UNCHANGED << master_local_data, master_remote_data,
                                     plot_time_data, appended >>
             /\ time_data' =
                  IF Len(time_data) = 0 \/ t0 - time_data[Len(time_data)] > 0
                  THEN DequeAppend(time_data, t0, HistoryMaxLen)
                  ELSE time_data
     /\ ev' = Event("on_data_received", data, "", -1, sender, NoWrites,
                    IF device = master_esp
                    THEN Len(plot_time_data) + 1 - Len(plot_time_data')
                    ELSE 0)
     /\ UNCHANGED << program, master_esp, operation_mode, local_esp,
                     current_sensor, plot_data_local, plot_data_remote,
                     plot_time >>

\* ESP32Monitor.set_master_esp(esp_name)
Mon_set_master_esp(esp) ==
  /\ program = "esp32_monitor"
  /\ master_esp' = esp
  /\ Mon_ClearPlot
  /\ curves' = NoCurves
  /\ ev' = Event("set_master_esp", EmptyDict, esp, -1, 0,
                 send_master_command(esp), Len(plot_time_data))
  /\ UNCHANGED << program, operation_mode, local_esp, current_sensor,
                  plot_data_local, plot_data_remote, plot_time,
                  esp1_data, esp2_data, time_data, now >>

\* ESP32Monitor.set_sensor(sensor_idx)
Mon_set_sensor(sensor_idx) ==
  /\ program = "esp32_monitor"
  /\ current_sensor' = sensor_idx
  /\ Mon_ClearPlot
  /\ curves' = NoCurves
  /\ ev' = Event("set_sensor", EmptyDict, "", sensor_idx, 0, NoWrites,
                 Len(plot_time_data))
  /\ UNCHANGED << program, master_esp, operation_mode, local_esp,
                  plot_data_local, plot_data_remote, plot_time,
                  esp1_data, esp2_data, time_data, now >>

\* ------------------------------------------- SerialWorker: bytes and text
\* A byte is a one-character string for an ASCII byte and the two hex digits
\* of its value for a byte above 0x7F; a character of decoded text is the
\* same string for ASCII and "U+00xx" for the code point of a two-byte
\* sequence.
NL == "\n"
Quote == "\""
\* lead byte of the two-byte sequences U+0080 .. U+00BF, and their second bytes
LeadBytes == {"C2"}
ContinuationBytes == {"B0"}
\* characters str.strip() removes
Whitespace == {" ", "\t", "\r", NL}

\* bytes.decode('utf-8', errors='ignore') of one read: a lead byte followed by
\* a continuation byte is one character; a lead byte at the end of the input
\* or before another byte, and a continuation byte with no lead, are dropped
RECURSIVE decode(_)
decode(bs) ==
  IF bs = << >> THEN << >>
  ELSE IF Head(bs) \in LeadBytes
       THEN IF Len(bs) >= 2 /\ bs[2] \in ContinuationBytes
            THEN << "U+00" \o bs[2] >> \o decode(SubSeq(bs, 3, Len(bs)))
            ELSE decode(Tail(bs))
       ELSE IF Head(bs) \in ContinuationBytes
            THEN decode(Tail(bs))
            ELSE << Head(bs) >> \o decode(Tail(bs))

\* index of the first '\n' of a text that holds one
FirstNL(text) ==
  CHOOSE i \in 1 .. Len(text) :
    text[i] = NL /\ \A j \in 1 .. (i - 1) : text[j] # NL

HasNL(text) == \E i \in 1 .. Len(text) : text[i] = NL

\* the lines that `while '\n' in buffer: line, buffer = buffer.split('\n', 1)`
\* takes off the buffer, in order
RECURSIVE SplitLines(_)
SplitLines(text) ==
  IF HasNL(text)
  THEN << SubSeq(text, 1, FirstNL(text) - 1) >>
         \o SplitLines(SubSeq(text, FirstNL(text) + 1, Len(text)))
  ELSE << >>

\* what is left in the buffer when the while loop ends
RECURSIVE Remainder(_)
Remainder(text) ==
  IF HasNL(text)
  THEN Remainder(SubSeq(text, FirstNL(text) + 1, Len(text)))
  ELSE text

\* str.strip()
RECURSIVE lstrip(_)
lstrip(text) ==
  IF text # << >> /\ Head(text) \in Whitespace THEN lstrip(Tail(text)) ELSE text

RECURSIVE rstrip(_)
rstrip(text) ==
  IF text # << >> /\ text[Len(text)] \in Whitespace
  THEN rstrip(SubSeq(text, 1, Len(text) - 1))
  ELSE text

strip(text) == lstrip(rstrip(text))

\* ------------------------------------------------ the lines a node sends
KeyDevice == << Quote, "d", "e", "v", "i", "c", "e", Quote >>
ValESP(n) == << Quote, "E", "S", "P", n, Quote >>

\* {"device":"ESPn"}
DocDevice(n) == << "{" >> \o KeyDevice \o << ":" >> \o ValESP(n) \o << "}" >>

\* {"device":"ESPn","u":"<unit>"} with the characters or bytes of the unit
DocDeviceUnit(n, unit) ==
  << "{" >> \o KeyDevice \o << ":" >> \o ValESP(n)
    \o << ",", Quote, "u", Quote, ":", Quote >> \o unit \o << Quote, "}" >>

\* {"u":"<unit>"}
DocUnit(unit) ==
  << "{", Quote, "u", Quote, ":", Quote >> \o unit \o << Quote, "}" >>

\* {bad} : braces around text that is not JSON
DocBad == << "{", "b", "a", "d", "}" >>

\* a log line of the firmware
LogLine == << "L", "E", "D", " ", "o", "k" >>

\* json.loads on the texts above: the object they denote; every other text
\* that starts with '{' and ends with '}' here is not JSON
JsonDocs ==
  { [text |-> DocDevice(n), value |-> [device |-> "ESP" \o n]] :
      n \in {"1", "2", "3"} }
  \cup
  { [text |-> DocDeviceUnit("1", << "U+00B0" >>),
     value |-> [device |-> "ESP1", u |-> "U+00B0"]],
    [text |-> DocDeviceUnit("1", << >>),
     value |-> [device |-> "ESP1", u |-> ""]],
    [text |-> DocUnit(<< "U+00B0" >>), value |-> [u |-> "U+00B0"]],
    [text |-> DocUnit(<< >>), value |-> [u |-> ""]] }

IsJson(text) == \E d \in JsonDocs : d.text = text

json_loads(text) == (CHOOSE d \in JsonDocs : d.text = text).value

\* SerialWorker.process_line(line): the dicts data_received.emit carries (one
\* or none); JSONDecodeError is swallowed
process_line(line) ==
  IF line[1] = "{" /\ line[Len(line)] = "}" /\ IsJson(line)
  THEN << json_loads(line) >>
  ELSE << >>

\* a reader whose inner loop gives up the lines behind one it cannot parse
RECURSIVE ProcessLines_stops_at_bad(_)
ProcessLines_stops_at_bad(lines) ==
  IF lines = << >> THEN << >>
  ELSE IF strip(Head(lines)) = << >>
       THEN ProcessLines_stops_at_bad(Tail(lines))
       ELSE IF process_line(strip(Head(lines))) = << >>
            THEN << >>
            ELSE process_line(strip(Head(lines)))
                   \o ProcessLines_stops_at_bad(Tail(lines))

\* the dicts emitted for a sequence of lines taken off the buffer, in order;
\* `if line:` skips a line that is empty after strip()
RECURSIVE ProcessLines(_)
ProcessLines(lines) ==
  IF lines = << >> THEN << >>
  ELSE (IF strip(Head(lines)) = << >>
        THEN << >>
        ELSE process_line(strip(Head(lines))))
       \o ProcessLines(Tail(lines))

\* self.esp_name after the dicts ds were emitted
RECURSIVE NameAfter(_, _)
NameAfter(name, ds) ==
  IF ds = << >> THEN name
  ELSE NameAfter(IF "device" \in DOMAIN Head(ds) THEN Head(ds).device ELSE name,
                 Tail(ds))

\* ------------------------------------------------ SerialWorker: the thread
\* one queued signal of worker w; port is self.port at the emit
DataSignal(w, data) ==
  [sig |-> "data_received", worker |-> w, port |-> wport[w], data |-> data,
   connected |-> FALSE]

StatusSignal(w, connected) ==
  [sig |-> "connection_status", worker |-> w, port |-> wport[w],
   data |-> EmptyDict, connected |-> connected]

\* signals posted in the reverse of the order of their emits
DataSignals_reversed(w, ds) ==
  [i \in 1 .. Len(ds) |-> DataSignal(w, ds[Len(ds) - i + 1])]

\* the data_received signals of the dicts ds, in order
DataSignals(w, ds) == [i \in 1 .. Len(ds) |-> DataSignal(w, ds[i])]

\* the process exists: the window was not closed and Qt did not abort
Alive == main_pc \notin {"closed", "aborted"}

\* a run() that reports a failed open and tries the port again
run_open_retries(w) ==
  /\ Alive
  /\ wstate[w] = "start"
  /\ \E ok \in BOOLEAN :
       IF ok
       THEN /\ serial_connection' = [serial_connection EXCEPT ![w] = "open"]
            /\ wstate' = [wstate EXCEPT ![w] = "opened"]
            /\ queue' = queue
       ELSE /\ serial_connection' = serial_connection
            /\ wstate' = wstate
            /\ queue' = Append(queue, StatusSignal(w, FALSE))
  /\ UNCHANGED << running, wport, esp_name, stream, rpos, buffer, emitted >>
  /\ UNCHANGED mainVars
  /\ UNCHANGED dataVars

\* run(), serial.Serial(...): the port opens, or the call raises and the
\* except and finally clauses each emit connection_status(port, False)
run_open(w) ==
  /\ Alive
  /\ wstate[w] = "start"
  /\ \E ok \in BOOLEAN :
       IF ok
       THEN /\ serial_connection' = [serial_connection EXCEPT ![w] = "open"]
            /\ wstate' = [wstate EXCEPT ![w] = "opened"]
            /\ queue' = queue
       ELSE /\ serial_connection' = serial_connection
            /\ wstate' = [wstate EXCEPT ![w] = "done"]
            /\ queue' = queue \o << StatusSignal(w, FALSE),
                                    StatusSignal(w, FALSE) >>
  /\ UNCHANGED << running, wport, esp_name, stream, rpos, buffer, emitted >>
  /\ UNCHANGED mainVars
  /\ UNCHANGED dataVars

\* run(): self.running = True; connection_status.emit(port, True); buffer = ""
run_connected(w) ==
  /\ Alive
  /\ wstate[w] = "opened"
  /\ running' = [running EXCEPT ![w] = TRUE]
  /\ queue' = Append(queue, StatusSignal(w, TRUE))
  /\ buffer' = [buffer EXCEPT ![w] = << >>]
  /\ wstate' = [wstate EXCEPT ![w] = "loop"]
  /\ UNCHANGED << serial_connection, wport, esp_name, stream, rpos, emitted >>
  /\ UNCHANGED mainVars
  /\ UNCHANGED dataVars

\* one pass of `while self.running:` with in_waiting = k > 0: read k bytes,
\* decode them, extend the buffer, process every complete line
run_poll(w, k) ==
  LET data == decode(SubSeq(stream[w], rpos[w] + 1, rpos[w] + k))
      text == buffer[w] \o data
      ds == ProcessLines(SplitLines(text))
  IN /\ Alive
     /\ wstate[w] = "loop"
     /\ running[w]
     /\ k \in 1 .. (Len(stream[w]) - rpos[w])
     /\ rpos' = [rpos EXCEPT ![w] = rpos[w] + k]
     /\ buffer' = [buffer EXCEPT ![w] = Remainder(text)]
     /\ emitted' = [emitted EXCEPT ![w] = emitted[w] \o ds]
     /\ esp_name' = [esp_name EXCEPT ![w] = NameAfter(esp_name[w], ds)]
     /\ queue' = queue \o DataSignals(w, ds)
     /\ UNCHANGED << wstate, running, serial_connection, wport, stream >>
     /\ UNCHANGED mainVars
     /\ UNCHANGED dataVars

\* a run() whose loop has no handler of its own: the exception leaves the
\* loop, and the outer except and the finally clause end the session
run_read_error_ends(w) ==
  /\ Alive
  /\ wstate[w] = "loop"
  /\ running[w]
  /\ wstate' = [wstate EXCEPT ![w] = "done"]
  /\ serial_connection' = [serial_connection EXCEPT ![w] = "closed"]
  /\ queue' = queue \o << StatusSignal(w, FALSE), StatusSignal(w, FALSE) >>
  /\ UNCHANGED << running, wport, esp_name, stream, rpos, buffer, emitted >>
  /\ UNCHANGED mainVars
  /\ UNCHANGED dataVars

\* one pass of `while self.running:` in which in_waiting or read() raises:
\* no byte was read and the buffer is as it was; the handler inside the loop
\* reports the error (debug_message / print) and the thread sleeps 100 ms
run_read_error(w) ==
  /\ Alive
  /\ wstate[w] = "loop"
  /\ running[w]
  /\ wstate' = [wstate EXCEPT ![w] = "except"]
  /\ UNCHANGED << running, serial_connection, wport, esp_name, stream, rpos,
                  buffer, emitted, queue >>
  /\ UNCHANGED mainVars
  /\ UNCHANGED dataVars

\* msleep(100) in the handler returns: back to the test of the while loop
run_resume(w) ==
  /\ Alive
  /\ wstate[w] = "except"
  /\ wstate' = [wstate EXCEPT ![w] = "loop"]
  /\ UNCHANGED << running, serial_connection, wport, esp_name, stream, rpos,
                  buffer, emitted, queue >>
  /\ UNCHANGED mainVars
  /\ UNCHANGED dataVars

\* a finally clause reached while self.running is still true
run_finally_while_running(w) ==
  /\ Alive
  /\ wstate[w] = "loop"
  /\ serial_connection' = [serial_connection EXCEPT ![w] = "closed"]
  /\ queue' = Append(queue, StatusSignal(w, FALSE))
  /\ wstate' = [wstate EXCEPT ![w] = "done"]
  /\ UNCHANGED << running, wport, esp_name, stream, rpos, buffer, emitted >>
  /\ UNCHANGED mainVars
  /\ UNCHANGED dataVars

\* run(): the while test finds self.running false; finally closes the port
\* and emits connection_status(port, False); the thread finishes
run_finally(w) ==
  /\ Alive
  /\ wstate[w] = "loop"
  /\ ~running[w]
  /\ serial_connection' = [serial_connection EXCEPT ![w] = "closed"]
  /\ queue' = Append(queue, StatusSignal(w, FALSE))
  /\ wstate' = [wstate EXCEPT ![w] = "done"]
  /\ UNCHANGED << running, wport, esp_name, stream, rpos, buffer, emitted >>
  /\ UNCHANGED mainVars
  /\ UNCHANGED dataVars

\* SerialWorker.stop()
stop(w) == [running EXCEPT ![w] = FALSE]

\* ------------------------------------------- the main thread and the link
\* the slot that holds worker w
SlotOf(w) == IF esp1_worker = w THEN "ESP1" ELSE "ESP2"

\* self.espN_worker = w for the slot of esp
SetSlot(esp, w) ==
  /\ esp1_worker' = IF esp = "ESP1" THEN w ELSE esp1_worker
  /\ esp2_worker' = IF esp = "ESP2" THEN w ELSE esp2_worker

\* the SerialWorker object the next SerialWorker(port) call creates
NextWorker == CHOOSE n \in Workers :
                wstate[n] = "unborn" /\ \A m \in 1 .. (n - 1) : wstate[m] # "unborn"

\* the thread of w has been started and has not finished
ThreadRuns(w) == wstate[w] \in {"start", "opened", "loop", "except"}

\* toggle_connection(esp) up to its first blocking call. Disconnect branch:
\* stop() and the main thread enters wait(). Connect branch, with `port` the
\* combo text and `bytes` what that port will deliver: a new SerialWorker
\* replaces the slot's reference and is started; the replaced object loses
\* its last reference, and Qt aborts the process when a QThread is destroyed
\* while its thread runs.
toggle_connection(esp, port, bytes) ==
  LET w == WorkerOf(esp)
  IN /\ main_pc = "idle"
     /\ IF w # NoWorker /\ running[w]
        THEN /\ running' = stop(w)
             /\ main_pc' = "toggle_wait"
             /\ waiting_on' = w
             /\ UNCHANGED << esp1_worker, esp2_worker, wstate, wport, stream,
                             esp_status, esp_btn, ev, curves >>
        ELSE /\ \E n \in Workers : wstate[n] = "unborn"
             /\ SetSlot(esp, NextWorker)
             /\ wstate' = [wstate EXCEPT ![NextWorker] = "start"]
             /\ wport' = [wport EXCEPT ![NextWorker] = port]
             /\ stream' = [stream EXCEPT ![NextWorker] = bytes]
             /\ esp_btn' = [esp_btn EXCEPT ![esp] = "Desconectar"]
             /\ esp_status' = [esp_status EXCEPT ![esp] = "Conectando..."]
             /\ main_pc' = IF w # NoWorker /\ ThreadRuns(w)
                           THEN "aborted"
                           ELSE "idle"
             /\ ev' = Event("toggle_connection", EmptyDict, esp, -1, 0,
                            NoWrites, 0)
             /\ curves' = NoCurves
             /\ UNCHANGED << running, waiting_on >>
     /\ UNCHANGED << serial_connection, esp_name, rpos, buffer, emitted, queue,
                     joined >>
     /\ UNCHANGED plotVars

\* the rest of the disconnect branch: wait() returns when the thread has
\* finished; the slot is set to None and the widgets show the disconnect
toggle_connection_return ==
  /\ main_pc = "toggle_wait"
  /\ wstate[waiting_on] = "done"
  /\ SetSlot(SlotOf(waiting_on), NoWorker)
  /\ esp_btn' = [esp_btn EXCEPT ![SlotOf(waiting_on)] = "Conectar"]
  /\ esp_status' = [esp_status EXCEPT ![SlotOf(waiting_on)] = "Desconectado"]
  /\ joined' = joined \cup {waiting_on}
  /\ main_pc' = "idle"
  /\ waiting_on' = NoWorker
  /\ ev' = Event("toggle_connection", EmptyDict, SlotOf(waiting_on), -1, 0,
                 NoWrites, 0)
  /\ curves' = NoCurves
  /\ UNCHANGED workerVars
  /\ UNCHANGED queue
  /\ UNCHANGED plotVars

\* closeEvent from the slot of esp1 on: stop() and wait() on the first slot
\* that holds a SerialWorker, whether or not it is running; event.accept()
\* when none is left
CloseFrom(slots) ==
  IF \E i \in 1 .. Len(slots) : WorkerOf(slots[i]) # NoWorker
  THEN LET i == CHOOSE i \in 1 .. Len(slots) :
                  /\ WorkerOf(slots[i]) # NoWorker
                  /\ \A j \in 1 .. (i - 1) : WorkerOf(slots[j]) = NoWorker
       IN /\ running' = stop(WorkerOf(slots[i]))
          /\ waiting_on' = WorkerOf(slots[i])
          /\ main_pc' = IF slots[i] = "ESP1" THEN "close_wait1" ELSE "close_wait2"
  ELSE /\ running' = running
       /\ waiting_on' = NoWorker
       /\ main_pc' = "closed"

\* closeEvent(event) up to its first blocking call
closeEvent ==
  /\ main_pc = "idle"
  /\ CloseFrom(<< "ESP1", "ESP2" >>)
  /\ ev' = Event("closeEvent", EmptyDict, "", -1, 0, NoWrites, 0)
  /\ curves' = NoCurves
  /\ UNCHANGED << esp1_worker, esp2_worker, joined, esp_status, esp_btn >>
  /\ UNCHANGED << wstate, serial_connection, wport, esp_name, stream, rpos,
                  buffer, emitted, queue >>
  /\ UNCHANGED plotVars

\* closeEvent after a wait() that returned: the second slot, then accept
closeEvent_return ==
  /\ main_pc \in {"close_wait1", "close_wait2"}
  /\ wstate[waiting_on] = "done"
  /\ IF main_pc = "close_wait1"
     THEN CloseFrom(<< "ESP2" >>)
     ELSE CloseFrom(<< >>)
  /\ UNCHANGED << esp1_worker, esp2_worker, joined, esp_status, esp_btn >>
  /\ UNCHANGED << wstate, serial_connection, wport, esp_name, stream, rpos,
                  buffer, emitted, queue >>
  /\ UNCHANGED dataVars

\* on_connection_status(port, connected), the signal sent by worker `sender`
on_connection_status(port, connected, sender) ==
  LET status == IF connected THEN "Conectado" ELSE "Desconectado"
      match(e) == WorkerOf(e) # NoWorker /\ wport[WorkerOf(e)] = port
  IN /\ esp_status' = [e \in ESPs |-> IF match(e) THEN status ELSE esp_status[e]]
     /\ esp_btn' = [e \in ESPs |-> IF match(e) /\ ~connected
                                   THEN "Conectar"
                                   ELSE esp_btn[e]]
     /\ ev' = Event("on_connection_status", EmptyDict, port, -1, sender,
                    NoWrites, 0)
     /\ curves' = NoCurves
     /\ UNCHANGED plotVars

\* the event loop of the main thread takes the oldest queued signal and runs
\* the slot connected to it; a queued call posted before its sender went away
\* is still delivered
deliver ==
  /\ main_pc = "idle"
  /\ queue # << >>
  /\ queue' = Tail(queue)
  /\ IF Head(queue).sig = "data_received"
     THEN /\ IF program = "iniciar_sistema"
             THEN on_data_received(Head(queue).data, Head(queue).worker)
             ELSE Mon_on_data_received(Head(queue).data, Head(queue).worker)
          /\ UNCHANGED << esp_status, esp_btn >>
     ELSE on_connection_status(Head(queue).port, Head(queue).connected,
                               Head(queue).worker)
  /\ UNCHANGED << esp1_worker, esp2_worker, main_pc, waiting_on, joined >>
  /\ UNCHANGED workerVars

\* ---------------------------------------------------------- initial state
\* ESP32Interface.__init__ / ESP32Monitor.__init__
InitData ==
  /\ program \in Programs
  /\ master_esp = "ESP1"
  /\ operation_mode = "LOCAL"
  /\ local_esp = None
  /\ current_sensor = 0
  /\ plot_data_local = << >>
  /\ plot_data_remote = << >>
  /\ plot_time = << >>
  /\ master_local_data = << >>
  /\ master_remote_data = << >>
  /\ plot_time_data = << >>
  /\ esp1_data = << >>
  /\ esp2_data = << >>
  /\ time_data = << >>
  /\ now = 0
  /\ curves = NoCurves
  /\ appended = << >>
  /\ ev = Event("__init__", EmptyDict, "", -1, 0, NoWrites, 0)

\* no SerialWorker exists yet; the widgets as create_control_panel and
\* create_status_panel build them
InitLink ==
  /\ esp1_worker = NoWorker
  /\ esp2_worker = NoWorker
  /\ wstate = [w \in Workers |-> "unborn"]
  /\ running = [w \in Workers |-> FALSE]
  /\ serial_connection = [w \in Workers |-> None]
  /\ wport = [w \in Workers |-> None]
  /\ esp_name = [w \in Workers |-> "Unknown"]
  /\ stream = [w \in Workers |-> << >>]
  /\ rpos = [w \in Workers |-> 0]
  /\ buffer = [w \in Workers |-> << >>]
  /\ emitted = [w \in Workers |-> << >>]
  /\ queue = << >>
  /\ main_pc = "idle"
  /\ waiting_on = NoWorker
  /\ joined = {}
  /\ esp_status = [e \in ESPs |-> "Desconectado"]
  /\ esp_btn = [e \in ESPs |-> "Conectar"]

Init == InitData /\ InitLink

\* -------------------------------------- the handlers on telemetry as input
\* a frame handler that makes its sender's node the master
DataReceived_adopts_master ==
  \E data \in Frames :
    /\ main_pc = "idle"
    /\ master_esp' = IF Get(data, "device", "Unknown") \in ESPs
                      THEN data.device
                      ELSE master_esp
    /\ ev' = Event("on_data_received", data, "", -1, 0, NoWrites, 0)
    /\ curves' = NoCurves
    /\ UNCHANGED << program, operation_mode, local_esp, current_sensor,
                    plot_data_local, plot_data_remote, plot_time,
                    master_local_data, master_remote_data, plot_time_data,
                    esp1_data, esp2_data, time_data, now, appended >>
    /\ UNCHANGED linkVars

\* a data_received signal with any telemetry dict reaches the main window
DataReceived ==
  \E data \in Frames :
    /\ main_pc = "idle"
    /\ IF program = "iniciar_sistema"
       THEN on_data_received(data, 0)
       ELSE Mon_on_data_received(data, 0)
    /\ UNCHANGED linkVars

\* a master selector that offers a third node name
SetMaster_any_name ==
  \E esp \in ESPs \cup {"ESP3"} :
    /\ main_pc = "idle"
    /\ IF program = "iniciar_sistema"
       THEN set_master(esp)
       ELSE Mon_set_master_esp(esp)
    /\ UNCHANGED linkVars

\* the operator clicks a master button (esp1_master_btn / esp2_master_btn)
SetMaster ==
  \E esp \in ESPs :
    /\ main_pc = "idle"
    /\ IF program = "iniciar_sistema"
       THEN set_master(esp)
       ELSE Mon_set_master_esp(esp)
    /\ UNCHANGED linkVars

\* the operator clicks a sensor button
SetSensor ==
  \E idx \in SensorIdx :
    /\ main_pc = "idle"
    /\ IF program = "iniciar_sistema"
       THEN set_sensor(idx)
       ELSE Mon_set_sensor(idx)
    /\ UNCHANGED linkVars

\* the operator toggles a mode radio button
SetOperationMode ==
  \E mode \in Modes :
    /\ main_pc = "idle"
    /\ set_operation_mode(mode)
    /\ UNCHANGED linkVars

\* the 50 ms display timer fires
UpdateDisplay ==
  /\ main_pc = "idle"
  /\ update_display
  /\ UNCHANGED linkVars

Next ==
  \/ DataReceived
  \/ SetMaster
  \/ SetSensor
  \/ SetOperationMode
  \/ UpdateDisplay

Spec == Init /\ [][Next]_vars

\* --------------------------------------------- the link with both threads
\* a line as the firmware's println sends it, and a bare '\n' ending
Line(text) == text \o << NL >>
LineCRLF(text) == text \o << "\r", NL >>

\* what a port delivers while the operator connects and disconnects
LinkStreams == { Line(DocDevice("2")) \o Line(DocDevice("1")) }

\* the port selected in the combo box of each node
ComboText == [ESP1 |-> "COM1", ESP2 |-> "COM2"]

\* the operator clicks a connect button
ToggleConnection ==
  \E esp \in ESPs, bytes \in LinkStreams :
    toggle_connection(esp, ComboText[esp], bytes)

ToggleConnectionReturn == toggle_connection_return

\* the operator closes the window
CloseEvent == closeEvent

CloseEventReturn == closeEvent_return

WorkerOpen == \E w \in Workers : run_open(w)

WorkerConnected == \E w \in Workers : run_connected(w)

\* a poll that finds the bytes up to the end of some line waiting
WorkerPollLines ==
  \E w \in Workers :
    \E k \in 1 .. (Len(stream[w]) - rpos[w]) :
      /\ stream[w][rpos[w] + k] = NL
      /\ run_poll(w, k)

WorkerFinally == \E w \in Workers : run_finally(w)

Deliver == deliver

NextLink ==
  \/ ToggleConnection
  \/ ToggleConnectionReturn
  \/ CloseEvent
  \/ CloseEventReturn
  \/ WorkerOpen
  \/ WorkerConnected
  \/ WorkerPollLines
  \/ WorkerFinally
  \/ Deliver

SpecLink == Init /\ [][NextLink]_vars

\* ------------------------------------- the operator's commands on the links
\* the operator toggles an LED check box
SendLedCommand ==
  \E target \in ESPs, led_name \in LedNames, state \in BOOLEAN :
    /\ main_pc = "idle"
    /\ IF program = "iniciar_sistema"
       THEN send_led_command(target, led_name, state)
       ELSE Mon_send_led_command(target, led_name, state)
    /\ UNCHANGED linkVars

\* the operator clicks the remote LED test button
TestRemoteLeds ==
  /\ main_pc = "idle"
  /\ test_remote_leds
  /\ UNCHANGED linkVars

\* write_data is called on a worker whatever its state
WriteData ==
  \E w \in Workers :
    /\ main_pc = "idle"
    /\ write_data_call(w, << "SET_MASTER", "\n" >>)
    /\ UNCHANGED linkVars

\* ESP1's node sends one telemetry line, ESP2's node is silent
CmdStream == [ESP1 |-> Line(DocDevice("1")), ESP2 |-> << >>]

\* the operator clicks a connect button
ToggleLink ==
  \E esp \in ESPs : toggle_connection(esp, ComboText[esp], CmdStream[esp])

\* master selection and writes while links come and go
NextCmd ==
  \/ ToggleLink
  \/ ToggleConnectionReturn
  \/ WorkerOpen
  \/ WorkerConnected
  \/ WorkerPollLines
  \/ WorkerFinally
  \/ Deliver
  \/ SetMaster
  \/ WriteData

SpecCmd == Init /\ [][NextCmd]_vars

\* each node's port delivers one telemetry line of that node
LedStream == [ESP1 |-> Line(DocDevice("1")), ESP2 |-> Line(DocDevice("2"))]

\* the operator connects a link that is not connected
ConnectLink ==
  \E esp \in ESPs :
    /\ WorkerOf(esp) = NoWorker
    /\ toggle_connection(esp, ComboText[esp], LedStream[esp])

\* every command of the operator, in both modes, while the links come up
NextLed ==
  \/ ConnectLink
  \/ WorkerOpen
  \/ WorkerConnected
  \/ WorkerPollLines
  \/ Deliver
  \/ SetOperationMode
  \/ SetMaster
  \/ SendLedCommand
  \/ TestRemoteLeds

SpecLed == Init /\ [][NextLed]_vars

\* a poll of a running reader raises
WorkerReadError == \E w \in Workers : run_read_error(w)

WorkerResume == \E w \in Workers : run_resume(w)

\* the operator ticks the green LED's check box of a node
SendLedOn ==
  \E target \in ESPs :
    /\ main_pc = "idle"
    /\ IF program = "iniciar_sistema"
       THEN send_led_command(target, "led_verde", TRUE)
       ELSE Mon_send_led_command(target, "led_verde", TRUE)
    /\ UNCHANGED linkVars

\* the readers with read errors, the toggles and the close of the window
NextPoll ==
  \/ ToggleLink
  \/ ToggleConnectionReturn
  \/ CloseEvent
  \/ CloseEventReturn
  \/ WorkerOpen
  \/ WorkerConnected
  \/ WorkerPollLines
  \/ WorkerReadError
  \/ WorkerResume
  \/ WorkerFinally
  \/ Deliver

SpecPoll == Init /\ [][NextPoll]_vars

\* the same with the operator's commands to the nodes
NextIO ==
  \/ ToggleLink
  \/ ToggleConnectionReturn
  \/ CloseEvent
  \/ CloseEventReturn
  \/ WorkerOpen
  \/ WorkerConnected
  \/ WorkerPollLines
  \/ WorkerReadError
  \/ WorkerResume
  \/ WorkerFinally
  \/ Deliver
  \/ SetMaster
  \/ SendLedOn

SpecIO == Init /\ [][NextIO]_vars

\* the operator connects a link that is not connected; its node will send
\* two telemetry lines
ConnectBoth ==
  \E esp \in ESPs, bytes \in LinkStreams :
    /\ WorkerOf(esp) = NoWorker
    /\ toggle_connection(esp, ComboText[esp], bytes)

\* two readers emit their frames while the main thread handles them and the
\* operator selects the master
NextOrder ==
  \/ ConnectBoth
  \/ WorkerOpen
  \/ WorkerConnected
  \/ WorkerPollLines
  \/ Deliver
  \/ SetMaster

SpecOrder == Init /\ [][NextOrder]_vars

\* ------------------------------------- one reader and any split of its bytes
\* the lines a port may deliver
ReaderLines ==
  { Line(DocDevice("1")),
    LineCRLF(DocDeviceUnit("1", << "C2", "B0" >>)),
    Line(<< " " >> \o DocUnit(<< "C2", "B0" >>)),
    LineCRLF(DocBad),
    Line(LogLine),
    Line(<< >>) }

\* every sequence of 1 .. n complete lines
RECURSIVE StreamsOf(_)
StreamsOf(n) ==
  IF n = 0 THEN { << >> }
  ELSE StreamsOf(n - 1)
         \cup { s \o l : s \in StreamsOf(n - 1), l \in ReaderLines }

ReaderStreams == StreamsOf(MaxLines) \ { << >> }

\* the operator connects the first link once
ConnectReader ==
  /\ esp1_worker = NoWorker
  /\ \E bytes \in ReaderStreams :
       toggle_connection("ESP1", ComboText["ESP1"], bytes)

\* a poll that finds any number of the remaining bytes waiting
WorkerPoll ==
  \E w \in Workers :
    \E k \in 1 .. (Len(stream[w]) - rpos[w]) : run_poll(w, k)

NextReader ==
  \/ ConnectReader
  \/ WorkerOpen
  \/ WorkerConnected
  \/ WorkerPoll

SpecReader == Init /\ [][NextReader]_vars


\* ==================================================================== claims
\* the sensor key selected in a state
SensorKey == sensors[current_sensor + 1]

\* value of field `field` of a dict for the selected sensor, 0 when the field
\* or the key is absent
FieldValue(data, field) == Get(Get(data, field, EmptyDict), SensorKey, 0)

\* `new` is `old` with exactly one entry x appended, the oldest entry leaving
\* when `old` already holds cap entries
OneAppended(old, new, x, cap) ==
  /\ Len(new) = (IF Len(old) < cap THEN Len(old) + 1 ELSE cap)
  /\ new[Len(new)] = x
  /\ \A i \in 1 .. (Len(new) - 1) : new[i] = old[Len(old) - Len(new) + 1 + i]

\* this step is ESP32Interface.on_data_received handling the dict ev'.data
InterfaceFrameStep ==
  /\ program = "iniciar_sistema"
  /\ ev'.op = "on_data_received"

\* this step is ESP32Monitor.on_data_received handling the dict ev'.data
MonitorFrameStep ==
  /\ program = "esp32_monitor"
  /\ ev'.op = "on_data_received"

\* the step appended exactly one sample (l, r) to the window of ESP32Interface
InterfaceAppended(l, r) ==
  /\ OneAppended(plot_data_local, plot_data_local', l, PlotMaxLen)
  /\ OneAppended(plot_data_remote, plot_data_remote', r, PlotMaxLen)
  /\ \E t \in 0 .. MaxTime : OneAppended(plot_time, plot_time', t, PlotMaxLen)

\* the step appended exactly one sample (l, r) to the window of ESP32Monitor
MonitorAppended(l, r) ==
  /\ OneAppended(master_local_data, master_local_data', l, max_points)
  /\ OneAppended(master_remote_data, master_remote_data', r, max_points)
  /\ \E t \in 0 .. MaxTime :
       OneAppended(plot_time_data, plot_time_data', t, max_points)

\* the dict is a frame of a recognized node other than the master, with both
\* objects
RelayedSlaveFrame(data) ==
  /\ Get(data, "device", "Unknown") \in ESPs
  /\ Get(data, "device", "Unknown") # master_esp
  /\ "local" \in DOMAIN data
  /\ "remote" \in DOMAIN data

\* C1 as stated: in every operation mode, a frame of a recognized node other
\* than the master that carries both objects appends exactly one sample with
\* displayLocal = remote[sensor] and displayRemote = local[sensor].
C1_RelayedSlaveEveryMode ==
  [][ (InterfaceFrameStep /\ RelayedSlaveFrame(ev'.data))
        => InterfaceAppended(FieldValue(ev'.data, "remote"),
                             FieldValue(ev'.data, "local")) ]_vars

\* C1 as amended: in DISTRIBUIDO mode, a frame of a recognized node other than
\* the master that carries both objects appends exactly one sample with
\* displayLocal = remote[sensor] and displayRemote = local[sensor] (0 for a
\* key the object lacks).
C1_RelayedSlaveDistributed ==
  [][ (InterfaceFrameStep /\ RelayedSlaveFrame(ev'.data)
         /\ operation_mode = "DISTRIBUIDO")
        => InterfaceAppended(FieldValue(ev'.data, "remote"),
                             FieldValue(ev'.data, "local")) ]_vars

\* a relayed frame of the slave ESP1 was just published swapped, master ESP2
C1_Witness ==
  /\ program = "iniciar_sistema"
  /\ operation_mode = "DISTRIBUIDO"
  /\ master_esp = "ESP2"
  /\ ev.op = "on_data_received"
  /\ ev.data = FullFrame("ESP1")
  /\ current_sensor = 0
  /\ Len(plot_time) = 2
  /\ plot_data_local[2] = 3
  /\ plot_data_remote[2] = 1

\* C2: a frame whose device equals the current master appends exactly one
\* sample with displayLocal = local[sensor] and displayRemote =
\* remote[sensor], in LOCAL and DISTRIBUIDO mode, for either master, in both
\* programs.
C2_DirectMaster ==
  [][ /\ (InterfaceFrameStep /\ Get(ev'.data, "device", "Unknown") = master_esp)
          => InterfaceAppended(FieldValue(ev'.data, "local"),
                               FieldValue(ev'.data, "remote"))
      /\ (MonitorFrameStep /\ Get(ev'.data, "device", "Unknown") = master_esp)
          => MonitorAppended(FieldValue(ev'.data, "local"),
                             FieldValue(ev'.data, "remote")) ]_vars

\* a frame of the master ESP2 was just published unswapped in DISTRIBUIDO mode
C2_Witness ==
  /\ program = "iniciar_sistema"
  /\ operation_mode = "DISTRIBUIDO"
  /\ master_esp = "ESP2"
  /\ ev.op = "on_data_received"
  /\ ev.data = FullFrame("ESP2")
  /\ current_sensor = 0
  /\ Len(plot_time) = 2
  /\ plot_data_local[2] = 1
  /\ plot_data_remote[2] = 3

\* C3: a frame of the current master with a `local` object and no `remote`
\* appends exactly one sample with displayLocal = local[sensor] and
\* displayRemote = 0, in both operation modes.
C3_LocalOnlyMaster ==
  [][ (InterfaceFrameStep
         /\ Get(ev'.data, "device", "Unknown") = master_esp
         /\ "local" \in DOMAIN ev'.data
         /\ "remote" \notin DOMAIN ev'.data)
        => InterfaceAppended(FieldValue(ev'.data, "local"), 0) ]_vars

\* a local-only frame of the master was just published in DISTRIBUIDO mode
C3_Witness ==
  /\ program = "iniciar_sistema"
  /\ operation_mode = "DISTRIBUIDO"
  /\ ev.op = "on_data_received"
  /\ ev.data = Restrict(FullFrame(master_esp), {"device", "local"})
  /\ current_sensor = 1
  /\ Len(plot_time) = 1
  /\ plot_data_local[1] = 2
  /\ plot_data_remote[1] = 0

SeriesStep(old, new, cap) ==
  \/ new = old
  \/ new = << >>
  \/ Len(new) > 0 /\ OneAppended(old, new, new[Len(new)], cap)

\* C8: the SeriesWindow never holds more than its capacity, and an append to a
\* full window evicts exactly the oldest sample and keeps the order of the
\* others; in both programs.
C8_WindowCapacity ==
  [][ /\ Len(plot_time') <= PlotMaxLen
      /\ Len(plot_data_local') <= PlotMaxLen
      /\ Len(plot_data_remote') <= PlotMaxLen
      /\ Len(plot_time_data') <= max_points
      /\ Len(master_local_data') <= max_points
      /\ Len(master_remote_data') <= max_points
      /\ SeriesStep(plot_time, plot_time', PlotMaxLen)
      /\ SeriesStep(plot_data_local, plot_data_local', PlotMaxLen)
      /\ SeriesStep(plot_data_remote, plot_data_remote', PlotMaxLen)
      /\ SeriesStep(plot_time_data, plot_time_data', max_points)
      /\ SeriesStep(master_local_data, master_local_data', max_points)
      /\ SeriesStep(master_remote_data, master_remote_data', max_points) ]_vars

\* ESP32Monitor just appended to a full window and trimmed the oldest sample
C8_Witness ==
  /\ program = "esp32_monitor"
  /\ ev.op = "on_data_received"
  /\ ev.dropped = 1
  /\ Len(plot_time_data) = max_points
  /\ Len(master_local_data) = max_points
  /\ Len(master_remote_data) = max_points

\* the three series ts, ls, rs are the samples of the log, entry by entry
Aligned(ts, ls, rs) ==
  /\ Len(ts) = Len(appended)
  /\ Len(ls) = Len(appended)
  /\ Len(rs) = Len(appended)
  /\ \A i \in 1 .. Len(appended) :
       /\ ts[i] = appended[i].t
       /\ ls[i] = appended[i].local
       /\ rs[i] = appended[i].remote

\* what was handed to setData is the window ts, ls, rs with relative times
SnapshotOf(ts, ls, rs) ==
  /\ Len(curves.x) = Len(ts)
  /\ curves.x[1] = 0
  /\ \A i \in 1 .. Len(ts) : curves.x[i] = ts[i] - ts[1]
  /\ curves.local = ls
  /\ curves.remote = rs
  /\ Len(curves.local) = Len(curves.x)
  /\ Len(curves.remote) = Len(curves.x)

\* C9: wherever the display reads the window, the time, local and remote
\* series have the same length and entry i of each belongs to the same
\* appended sample; the relative times handed to the curves satisfy
\* relativeTimes[0] = 0 and relativeTimes[i] = t[i] - t[0].
C9_SnapshotConsistency ==
  /\ program = "iniciar_sistema" =>
       /\ Aligned(plot_time, plot_data_local, plot_data_remote)
       /\ curves.drawn => SnapshotOf(plot_time, plot_data_local, plot_data_remote)
  /\ program = "esp32_monitor" =>
       /\ Aligned(plot_time_data, master_local_data, master_remote_data)
       /\ curves.drawn =>
            SnapshotOf(plot_time_data, master_local_data, master_remote_data)

\* update_display just drew a window whose samples are one tick apart
C9_Witness ==
  /\ program = "iniciar_sistema"
  /\ ev.op = "update_display"
  /\ curves.drawn
  /\ curves.x = << 0, 1 >>
  /\ plot_time = << 0, 1 >>

\* C10: right after set_sensor(i) the three series are empty and
\* current_sensor = i; every sample visible in the window was extracted with
\* the key of the sensor now selected.
C10_SensorSwitch ==
  /\ ev.op = "set_sensor" =>
       /\ current_sensor = ev.idx
       /\ plot_time = << >> /\ plot_data_local = << >> /\ plot_data_remote = << >>
       /\ plot_time_data = << >> /\ master_local_data = << >>
       /\ master_remote_data = << >>
  /\ \A i \in 1 .. Len(appended) : appended[i].key = SensorKey
  /\ program = "iniciar_sistema" =>
       /\ Len(plot_time) = Len(appended)
       /\ Len(plot_data_local) = Len(appended)
       /\ Len(plot_data_remote) = Len(appended)
  /\ program = "esp32_monitor" =>
       /\ Len(plot_time_data) = Len(appended)
       /\ Len(master_local_data) = Len(appended)
       /\ Len(master_remote_data) = Len(appended)

\* set_sensor(1) just emptied a window that held samples of sensor 0
C10_Witness ==
  /\ program = "iniciar_sistema"
  /\ ev.op = "set_sensor"
  /\ ev.idx = 1
  /\ ev.dropped >= 1
  /\ current_sensor = 1
  /\ plot_time = << >>

\* the dicts one read of all the bytes would emit
AtomicFrames(bytes) == ProcessLines(SplitLines(decode(bytes)))

\* C5: for a byte sequence of complete newline-terminated lines, however the
\* bytes were split across reads (inside a line, inside a multi-byte UTF-8
\* character), once the reader has read them all it has emitted exactly the
\* dicts, in the same order, that a single read of all the bytes emits.
C5_SplitInvariance ==
  \A w \in Workers :
    (wstate[w] = "loop" /\ rpos[w] = Len(stream[w]))
      => emitted[w] = AtomicFrames(stream[w])

\* this step is the event loop handing the oldest queued signal to its slot
DeliverStep == queue # << >> /\ queue' = Tail(queue)

\* C6: once the disconnect branch of toggle_connection has finished for a
\* worker (stop() called, wait() returned, slot set to None), the main window
\* handles no data_received and no connection_status signal of that worker.
C6_PostTeardownSilence ==
  [][ DeliverStep => Head(queue).worker \notin joined ]_vars

\* C7: the wait() that follows stop() always returns. Only stop() clears
\* running and only the main thread calls it, so a main thread blocked in
\* wait() on a reader that polls with running = TRUE is blocked for ever;
\* the claim therefore requires that no such state is reachable.
C7_StopHonoured ==
  waiting_on # NoWorker
    => ~(wstate[waiting_on] = "loop" /\ running[waiting_on])

\* C12: handling a received frame never changes the current master, whatever
\* the frame's device and fields; the master changes only in the operator's
\* set_master / set_master_esp handler.
C12_MasterOperatorDriven ==
  [][ /\ ev'.op = "on_data_received" => master_esp' = master_esp
      /\ master_esp' # master_esp => ev'.op \in {"set_master", "set_master_esp"}
    ]_vars

\* a relayed frame of ESP2 was just plotted and the master is still ESP1
C12_Witness ==
  /\ program = "iniciar_sistema"
  /\ operation_mode = "DISTRIBUIDO"
  /\ ev.op = "on_data_received"
  /\ ev.data = FullFrame("ESP2")
  /\ master_esp = "ESP1"
  /\ Len(plot_time) = 1

\* C13: in every reachable state the current master is ESP1 or ESP2, and it
\* is ESP1 in the initial state.
C13_ExactlyOneMaster ==
  /\ master_esp \in ESPs
  /\ ev.op = "__init__" => master_esp = "ESP1"

\* the operator's handler just made ESP2 the master
C13_Witness ==
  /\ ev.op \in {"set_master", "set_master_esp"}
  /\ ev.esp = "ESP2"
  /\ master_esp = "ESP2"

\* the step left the SeriesWindow of both programs as it was
WindowUnchanged ==
  /\ plot_time' = plot_time
  /\ plot_data_local' = plot_data_local
  /\ plot_data_remote' = plot_data_remote
  /\ plot_time_data' = plot_time_data
  /\ master_local_data' = master_local_data
  /\ master_remote_data' = master_remote_data

\* C14: a frame whose device value is neither ESP1 nor ESP2 appends no sample
\* to the SeriesWindow, does not set local_esp and does not change the
\* master, in every mode.
C14_UnrecognizedExcluded ==
  [][ (ev'.op = "on_data_received"
         /\ "device" \in DOMAIN ev'.data
         /\ ev'.data.device \notin ESPs)
        => (WindowUnchanged /\ local_esp' = local_esp
              /\ master_esp' = master_esp) ]_vars

\* C15: a line that parses as a JSON object without a `device` key is
\* dropped: the reader emits no data_received for it, so every dict a reader
\* has emitted carries a device.
C15_DeviceRequired ==
  \A w \in Workers :
    \A i \in 1 .. Len(emitted[w]) : "device" \in DOMAIN emitted[w][i]

\* the lines of ReaderLines that are a JSON object between '{' and '}' once
\* surrounding whitespace is removed
WellFormedLines ==
  { Line(DocDevice("1")),
    LineCRLF(DocDeviceUnit("1", << "C2", "B0" >>)),
    Line(<< " " >> \o DocUnit(<< "C2", "B0" >>)) }

IsPrefix(l, bytes) == Len(l) <= Len(bytes) /\ SubSeq(bytes, 1, Len(l)) = l

\* number of well-formed lines in a stream made of lines of ReaderLines
RECURSIVE WellFormedIn(_)
WellFormedIn(bytes) ==
  IF bytes = << >> THEN 0
  ELSE LET l == CHOOSE l \in ReaderLines : IsPrefix(l, bytes)
       IN (IF l \in WellFormedLines THEN 1 ELSE 0)
            + WellFormedIn(SubSeq(bytes, Len(l) + 1, Len(bytes)))

\* C16: a malformed line (not enclosed in '{' .. '}', or not JSON) yields no
\* frame and does not end the reader: a reader that has read bytes is still
\* in its loop, running, with the port open, and once it has read the whole
\* stream it has emitted one frame per well-formed line, including those that
\* follow a malformed one.
C16_MalformedSkipped ==
  \A w \in Workers :
    rpos[w] > 0 =>
      /\ wstate[w] = "loop"
      /\ running[w]
      /\ serial_connection[w] = "open"
      /\ rpos[w] = Len(stream[w]) => Len(emitted[w]) = WellFormedIn(stream[w])

\* {bad} and then a telemetry line were read: only the second gave a frame
C16_Witness ==
  \E w \in Workers :
    /\ stream[w] = LineCRLF(DocBad) \o Line(DocDevice("1"))
    /\ rpos[w] = Len(stream[w])
    /\ emitted[w] = << [device |-> "ESP1"] >>
    /\ running[w]
    /\ serial_connection[w] = "open"

\* the SeriesWindow of the running program holds no sample
WindowEmpty ==
  IF program = "iniciar_sistema"
  THEN plot_time = << >> /\ plot_data_local = << >> /\ plot_data_remote = << >>
  ELSE /\ plot_time_data = << >>
       /\ master_local_data = << >>
       /\ master_remote_data = << >>

\* C11: when set_master / set_master_esp has run for node X, the master is X
\* and the SeriesWindow is empty, whether or not X's link is connected and
\* whether or not the SET_MASTER line could be written.
C11_MasterAdopted ==
  ev.op \in {"set_master", "set_master_esp"} =>
    (master_esp = ev.esp /\ WindowEmpty)

\* ESP2 was made master with samples in the window and no link to ESP2
C11_Witness ==
  /\ ev.op \in {"set_master", "set_master_esp"}
  /\ ev.esp = "ESP2"
  /\ ev.dropped >= 1
  /\ ev.writes = NoWrites
  /\ esp2_worker = NoWorker
  /\ master_esp = "ESP2"
  /\ WindowEmpty

\* this step is a call of write_data
WriteDataStep == ev'.op = "write_data" /\ ev' # ev

\* C17: write_data returns False and writes nothing when the port was never
\* opened or the reader is not running (before start, after stop, after a
\* failed open); it returns True only when the bytes were written; it always
\* returns a Boolean, and the call leaves the running flag, the port and the
\* receive buffer as they were.
C17_WriteContract ==
  [][ WriteDataStep =>
        LET w == ev'.sender
        IN /\ ev'.returned \in BOOLEAN
           /\ (serial_connection[w] = None \/ ~running[w])
                => (ev'.returned = FALSE /\ ev'.writes = NoWrites)
           /\ ev'.returned
                => ev'.writes
                     = << [worker |-> w, data |-> << "SET_MASTER", "\n" >>] >>
           /\ running' = running
           /\ buffer' = buffer
           /\ serial_connection' = serial_connection
    ]_vars

\* write_data was called on a stopped worker whose port is closed: False
C17_Witness ==
  /\ ev.op = "write_data"
  /\ ev.returned = FALSE
  /\ ev.writes = NoWrites
  /\ wstate[ev.sender] = "done"
  /\ serial_connection[ev.sender] = "closed"
  /\ ~running[ev.sender]

\* this step is a call of set_master / set_master_esp
SetMasterStep == ev'.op \in {"set_master", "set_master_esp"} /\ ev' # ev

\* the link of node esp has a worker that is running with its port open
LinkUp(esp) ==
  /\ WorkerOf(esp) # NoWorker
  /\ running[WorkerOf(esp)]
  /\ serial_connection[WorkerOf(esp)] = "open"

\* the link of node esp has no worker or a worker that is not running
LinkDown(esp) == WorkerOf(esp) = NoWorker \/ ~running[WorkerOf(esp)]

OtherESP(esp) == IF esp = "ESP1" THEN "ESP2" ELSE "ESP1"

\* C19: set_master for node X with X's link open and running writes exactly
\* one SET_MASTER line, to X's link, and nothing to the other link; with X's
\* link not running it writes nothing at all.
C19_SetMasterAnnounced ==
  [][ SetMasterStep =>
        /\ LinkUp(ev'.esp)
             => ev'.writes = << [worker |-> WorkerOf(ev'.esp),
                                 data |-> << "SET_MASTER", "\n" >>] >>
        /\ LinkDown(ev'.esp) => ev'.writes = NoWrites
    ]_vars

\* with both links up ESP2 was made master: one line, on ESP2's link
C19_Witness ==
  /\ ev.op \in {"set_master", "set_master_esp"}
  /\ ev.esp = "ESP2"
  /\ LinkUp("ESP1")
  /\ LinkUp("ESP2")
  /\ ev.writes = << [worker |-> esp2_worker,
                     data |-> << "SET_MASTER", "\n" >>] >>

\* C20: set_master for node X with the other node's link open and running
\* writes a SET_SLAVE line to the other node's link in the same step.
C20_SlaveNotified ==
  [][ (SetMasterStep /\ LinkUp(OtherESP(ev'.esp)))
        => \E i \in 1 .. Len(ev'.writes) :
             ev'.writes[i] = [worker |-> WorkerOf(OtherESP(ev'.esp)),
                              data |-> << "SET_SLAVE", "\n" >>]
    ]_vars

\* nodeId of a target: its name in lower case
NodeId(esp) == IF esp = "ESP1" THEN "esp1" ELSE "esp2"

TrueFalse(state) == IF state THEN "true" ELSE "false"

\* <ledName>:<true|false> and one newline, for the call recorded in e
PlainLine(e) == << e.data.led_name, ":", TrueFalse(e.data.state), "\n" >>

\* <nodeId>_<ledName>:<true|false> and one newline, for the call recorded in e
NodeLine(e) ==
  << NodeId(e.esp), "_", e.data.led_name, ":", TrueFalse(e.data.state), "\n" >>

\* the text ends in a newline and holds no other
OneTrailingNewline(text) ==
  /\ Len(text) >= 1
  /\ text[Len(text)] = "\n"
  /\ \A i \in 1 .. (Len(text) - 1) : text[i] # "\n"

Holds(e, data) ==
  /\ DOMAIN data \subseteq DOMAIN e
  /\ \A k \in DOMAIN data : e[k] = data[k]

\* history `new` is `old` with the dict data appended, the oldest entry leaving
\* a full history
HistoryAppended(old, new, data) ==
  /\ Len(new) = (IF Len(old) < HistoryMaxLen THEN Len(old) + 1 ELSE HistoryMaxLen)
  /\ Holds(new[Len(new)], data)
  /\ \A i \in 1 .. (Len(new) - 1) : new[i] = old[Len(old) - Len(new) + 1 + i]

\* the device named by the dict the step handled
FrameDevice == Get(ev'.data, "device", "Unknown")

Retained(data) ==
  \/ \E i \in 1 .. Len(esp1_data') : Holds(esp1_data'[i], data)
  \/ \E i \in 1 .. Len(esp2_data') : Holds(esp2_data'[i], data)

C26_LocalOnlyMasterDrives ==
  [][ (ev'.op = "on_data_received" /\ operation_mode = "LOCAL") =>
        /\ FrameDevice # master_esp => WindowUnchanged
        /\ ~WindowUnchanged =>
             LET l == FieldValue(ev'.data, "local")
                 r == FieldValue(ev'.data, "remote")
             IN IF program = "iniciar_sistema"
                THEN InterfaceAppended(l, r)
                ELSE MonitorAppended(l, r)
    ]_vars

\* in Local mode a full frame of ESP2 arrived after a sample of the master
\* ESP1 and the window still holds that one sample
C26_Witness ==
  /\ program = "iniciar_sistema"
  /\ operation_mode = "LOCAL"
  /\ ev.op = "on_data_received"
  /\ ev.data = FullFrame("ESP2")
  /\ master_esp = "ESP1"
  /\ Len(plot_time) = 1
  /\ plot_data_local = << LocalObj[SensorKey] >>

\* C29: in Distributed mode a frame whose device is not the master and that
\* lacks `local` or `remote` leaves the SeriesWindow unchanged.
C29_PartialSlaveIgnored ==
  [][ (InterfaceFrameStep
         /\ operation_mode = "DISTRIBUIDO"
         /\ FrameDevice # master_esp
         /\ ("local" \notin DOMAIN ev'.data \/ "remote" \notin DOMAIN ev'.data))
        => WindowUnchanged ]_vars

\* in Distributed mode a frame of ESP2 with only `local` arrived after a
\* sample of the master ESP1 and the window still holds that one sample
C29_Witness ==
  /\ program = "iniciar_sistema"
  /\ operation_mode = "DISTRIBUIDO"
  /\ ev.op = "on_data_received"
  /\ ev.data = Restrict(FullFrame("ESP2"), {"device", "local"})
  /\ master_esp = "ESP1"
  /\ Len(plot_time) = 1

\* this step is a call of send_led_command or test_remote_leds
LedStep == ev'.op \in {"send_led_command", "test_remote_leds"} /\ ev' # ev

\* C27: in Distributed mode every LED command that is written goes to the
\* link in the slot named by local_esp, whether the target is the local node
\* or the other one, and never to the other slot's link; while local_esp is
\* unresolved or that slot's reader is not running, nothing is written.
C27_LedViaLocalNode ==
  [][ (LedStep /\ program = "iniciar_sistema"
         /\ operation_mode = "DISTRIBUIDO")
        => /\ \A i \in 1 .. Len(ev'.writes) :
                /\ local_esp \in ESPs
                /\ ev'.writes[i].worker = WorkerOf(local_esp)
           /\ (local_esp \notin ESPs \/ LinkDown(local_esp))
                => ev'.writes = NoWrites
    ]_vars

\* with both links up and ESP1 the local node, the command for ESP2's red
\* LED was written to ESP1's link
C27_Witness ==
  /\ program = "iniciar_sistema"
  /\ operation_mode = "DISTRIBUIDO"
  /\ local_esp = "ESP1"
  /\ LinkUp("ESP1")
  /\ LinkUp("ESP2")
  /\ ev.op = "send_led_command"
  /\ ev.esp = "ESP2"
  /\ ev.writes = << [worker |-> esp1_worker,
                     data |-> << "esp2", "_", "led_rojo", ":", "false",
                                 "\n" >>] >>

\* the reader w ended because its port did not open
Failed(w) == wstate[w] = "done" /\ serial_connection[w] = None

\* in this step reader w, not yet open, put a signal in the queue without
\* having a port
OpenFailedStep(w) ==
  /\ wstate[w] = "start"
  /\ serial_connection'[w] = None
  /\ Len(queue') > Len(queue)
  /\ queue'[Len(queue')].worker = w

\* the signals queue' holds beyond those of queue
NewSignals == SubSeq(queue', Len(queue) + 1, Len(queue'))

\* C21: when opening the port fails the reader emits connection_status(False)
\* and nothing else (no connection_status(True), no frame) and terminates; a
\* terminated reader never runs again and a reader is only ever created by
\* toggle_connection; the next toggle of a slot that holds a failed reader
\* puts a new, started reader in the slot instead of disconnecting.
C21_OpenFailure ==
  [][ /\ \A w \in Workers :
           /\ OpenFailedStep(w) =>
                /\ wstate'[w] = "done"
                /\ NewSignals # << >>
                /\ \A i \in 1 .. Len(NewSignals) :
                     NewSignals[i] = StatusSignal(w, FALSE)
                /\ emitted'[w] = << >>
                /\ ~running'[w]
           /\ wstate[w] = "done" => wstate'[w] = "done"
           /\ (wstate[w] = "unborn" /\ wstate'[w] # "unborn")
                => (ev'.op = "toggle_connection" /\ wstate'[w] = "start")
      /\ \A e \in ESPs :
           (WorkerOf(e) # NoWorker /\ Failed(WorkerOf(e))) =>
             /\ ~(main_pc' = "toggle_wait" /\ waiting_on' = WorkerOf(e))
             /\ WorkerOf(e)' # WorkerOf(e) =>
                  /\ WorkerOf(e)' # NoWorker
                  /\ wstate[WorkerOf(e)'] = "unborn"
                  /\ wstate'[WorkerOf(e)'] = "start"
                  /\ main_pc' = "idle"
    ]_vars

\* ESP1's first reader failed to open, the operator toggled again and the
\* slot holds a second reader, started
C21_Witness ==
  /\ Failed(1)
  /\ emitted[1] = << >>
  /\ esp1_worker = 2
  /\ wstate[2] = "start"
  /\ main_pc = "idle"

\* C28: for each slot there is never more than one reader that was started
\* and has not terminated, and a started reader is never dropped from its
\* slot while its thread still runs.
C28_OneReaderPerSlot ==
  [][ \A e \in ESPs :
        /\ (WorkerOf(e) # NoWorker /\ ThreadRuns(WorkerOf(e)))
             => WorkerOf(e)' = WorkerOf(e)
        /\ Cardinality({ w \in Workers :
                           ThreadRuns(w)' /\ wport'[w] = ComboText[e] }) <= 1
    ]_vars

\* the step is worker w's poll raising inside the loop
ReadErrorStep(w) == wstate[w] = "loop" /\ wstate'[w] = "except"

\* C30: a read error inside the poll loop does not end the session: the
\* reader keeps running with the same stream, no status signal is emitted
\* and the thread goes back to polling; a reader whose port opened
\* terminates only after stop() cleared its running flag.
C30_ReadErrorSurvived ==
  [][ \A w \in Workers :
        /\ ReadErrorStep(w)
             => /\ running'[w] /\ ThreadRuns(w)'
                /\ serial_connection'[w] = "open"
                /\ stream'[w] = stream[w] /\ rpos'[w] = rpos[w]
                /\ buffer'[w] = buffer[w]
                /\ queue' = queue
        /\ (wstate[w] = "except" /\ wstate'[w] # "except")
             => (wstate'[w] = "loop" /\ serial_connection'[w] = "open"
                 /\ queue' = queue)
        /\ (ThreadRuns(w) /\ serial_connection[w] # None /\ wstate'[w] = "done")
             => ~running[w]
        /\ (running[w] /\ ~running'[w])
             => (main_pc' \in {"toggle_wait", "close_wait1", "close_wait2"}
                 /\ waiting_on' = w)
    ]_vars

\* a reader that has read its line is in the handler of a read error, still
\* running and with its port open
C30_Witness ==
  \E w \in Workers :
    /\ wstate[w] = "except"
    /\ running[w]
    /\ serial_connection[w] = "open"
    /\ rpos[w] > 0

\* the workers an operator's command of this step wrote to
Written == IF ev' # ev /\ "writes" \in DOMAIN ev'
           THEN { ev'.writes[i].worker : i \in DOMAIN ev'.writes }
           ELSE {}

\* C22: once close() was called on a reader's serial stream, no byte is read
\* from it and no write_data call writes to it, whatever the order of the
\* operator's commands, the toggles, the close of the window and the
\* reader's steps.
C22_NoIOAfterClose ==
  [][ \A w \in Workers :
        serial_connection[w] = "closed"
          => /\ rpos'[w] = rpos[w]
             /\ buffer'[w] = buffer[w]
             /\ wstate[w] = "done" /\ wstate'[w] = "done"
             /\ ~write_attempted(w)
             /\ w \notin Written
             /\ serial_connection'[w] = "closed"
    ]_vars

\* the operator sent a command to a node after its reader, which had read
\* its line, was stopped and joined and its port closed: nothing was written
C22_Witness ==
  /\ ev.op \in {"send_led_command", "set_master", "set_master_esp"}
  /\ ev.writes = NoWrites
  /\ WorkerOf(ev.esp) = NoWorker
  /\ \E w \in joined :
       /\ wport[w] = ComboText[ev.esp]
       /\ serial_connection[w] = "closed"
       /\ rpos[w] > 0

\* the number of data_received signals of worker w in the signals q
RECURSIVE Pending(_, _)
Pending(q, w) ==
  IF q = << >> THEN 0
  ELSE (IF Head(q).sig = "data_received" /\ Head(q).worker = w THEN 1 ELSE 0)
         + Pending(Tail(q), w)

\* this step hands a data_received signal to on_data_received
FrameStep == DeliverStep /\ Head(queue).sig = "data_received"

\* C23: the frames one reader emitted are handled by on_data_received in the
\* order of their lines on that link: the frame handled is always the oldest
\* emitted frame of its reader that was not handled yet, and the frames a
\* reader emitted are those of the lines it has read, in stream order. The
\* master, the binding, the histories and the windows change only in a step
\* of the main thread's event loop, in which no reader takes a step.
C23_SameLinkOrder ==
  [][ /\ FrameStep
           => LET w == Head(queue).worker
              IN /\ ev'.op = "on_data_received"
                 /\ ev'.sender = w
                 /\ ev'.data
                      = emitted[w][Len(emitted[w]) - Pending(queue, w) + 1]
                 /\ Pending(queue', w) = Pending(queue, w) - 1
      /\ \A w \in Workers :
           /\ Len(emitted'[w]) - Len(emitted[w])
                = Pending(queue', w) - Pending(queue, w)
                    + (IF FrameStep /\ Head(queue).worker = w THEN 1 ELSE 0)
           /\ IsPrefix(emitted[w], emitted'[w])
           /\ rpos'[w] # rpos[w]
                => emitted'[w]
                     = AtomicFrames(SubSeq(stream[w], 1, rpos'[w]))
      /\ plotVars' # plotVars
           => /\ main_pc = "idle" /\ main_pc' = "idle"
              /\ UNCHANGED workerVars
    ]_vars

\* a frame of one reader was handled while the queue holds a frame of the
\* other reader followed by the next frame of the first
C23_Witness ==
  /\ ev.op = "on_data_received"
  /\ Len(queue) >= 2
  /\ queue[1].sig = "data_received" /\ queue[1].worker # ev.sender
  /\ queue[2].sig = "data_received" /\ queue[2].worker = ev.sender
  /\ ev.sender # 0
  /\ ev.data = emitted[ev.sender][1]

====
